---- MODULE Spec2Model ----
(***************************************************************************)
(* A model of the Roku remote (src/main.rs): SSDP discovery                *)
(* (discover_roku_devices), the app catalog fetch (get_apps), the three    *)
(* control requests (send_command, launch_app, send_key) and the event     *)
(* handlers of RokuRemoteApp::update that call them.                       *)
(*                                                                         *)
(* Text is modelled as sequences of characters (one-character strings);    *)
(* a character outside ASCII is written "U+xxxx" and has the byte width    *)
(* UTF-8 gives it.  Option<T> is modelled as a set with at most one        *)
(* element: None is {} and Some(x) is {x}.                                 *)
(***************************************************************************)
EXTENDS Integers, Sequences, FiniteSets, TLC

VARIABLES
    \* discover_roku_devices
    dpc,              \* position in discover_roku_devices
    round,            \* the loop variable of `for _ in 0..RETRIES`
    sent,             \* number of M-SEARCH datagrams sent by the current call
    nrecv,            \* number of datagrams recv_from has returned in the call
    buf,              \* the datagram last returned by recv_from (buf[..amt])
    found,            \* the local Vec `found`
    addrs,            \* every value the local `address` took in the call, in order
    \* RokuRemoteApp
    devices,          \* self.devices
    selected_device,  \* self.selected_device (Option)
    apps,             \* self.apps
    selected_app,     \* self.selected_app (Option)
    launched,         \* the request the handler that ran last issued with launch_app
    \* get_apps
    gpc,              \* position in get_apps
    gip,              \* its argument ip
    gbody,            \* the response body, once read (Option)
    gret,             \* its return value
    gfail,            \* which step of the exchange failed, if one did
    \* send_command, launch_app, send_key
    cpc,              \* position in the running control call
    call,             \* the running control call: its name and arguments
    idx,              \* send_key: number of characters already taken from chars()
    inflight,         \* requests sent whose send() has not returned yet
    log               \* requests whose send() has returned, with the outcome

discoverVars == <<dpc, round, sent, nrecv, buf, found, addrs>>
uiVars       == <<devices, selected_device, apps, selected_app, launched>>
appsVars     == <<gpc, gip, gbody, gret, gfail>>
controlVars  == <<cpc, call, idx, inflight, log>>
vars == <<discoverVars, uiVars, appsVars, controlVars>>

(***************************************************************************)
(* Bounds of the model.                                                    *)
(***************************************************************************)
\* datagrams one discover call receives before the read times out
MaxDatagrams == 2
\* characters of a text given to send_key
MaxText == 3
\* records in one /query/apps response body
MaxRecords == 3

(***************************************************************************)
(* Sequences and characters.                                               *)
(***************************************************************************)
Range(s) == {s[i] : i \in 1..Len(s)}

NoDup(s) == \A i, j \in 1..Len(s) : s[i] = s[j] => i = j

SeqsUpTo(S, n) == UNION {[1..k -> S] : k \in 0..n}

Upper == <<"A","B","C","D","E","F","G","H","I","J","K","L","M",
           "N","O","P","Q","R","S","T","U","V","W","X","Y","Z">>
Lower == <<"a","b","c","d","e","f","g","h","i","j","k","l","m",
           "n","o","p","q","r","s","t","u","v","w","x","y","z">>

\* u8::to_ascii_lowercase, per character
ToAsciiLower(c) ==
    IF \E i \in 1..Len(Upper) : Upper[i] = c
    THEN Lower[CHOOSE i \in 1..Len(Upper) : Upper[i] = c]
    ELSE c

\* str::eq_ignore_ascii_case
eq_ignore_ascii_case(a, b) ==
    /\ Len(a) = Len(b)
    /\ \A i \in 1..Len(a) : ToAsciiLower(a[i]) = ToAsciiLower(b[i])

\* bytes of one character in UTF-8
Utf8Len(c) ==
    CASE c = "U+00E9" -> 2      \* e with acute accent
      [] c = "U+FFFD" -> 3      \* what from_utf8_lossy puts for invalid bytes
      [] OTHER -> 1

RECURSIVE ByteLen(_)
\* str::len of a sequence of characters: bytes, not characters
ByteLen(s) == IF s = <<>> THEN 0 ELSE Utf8Len(Head(s)) + ByteLen(Tail(s))

\* str::is_char_boundary(n): some prefix of s is exactly n bytes long
IsCharBoundary(s, n) == \E k \in 0..Len(s) : ByteLen(SubSeq(s, 1, k)) = n

\* the number of characters in the first n bytes of s (n a char boundary)
CharsIn(s, n) == CHOOSE k \in 0..Len(s) : ByteLen(SubSeq(s, 1, k)) = n

RECURSIVE TrimStart(_)
TrimStart(s) == IF s # <<>> /\ Head(s) = " " THEN TrimStart(Tail(s)) ELSE s

RECURSIVE TrimEnd(_)
TrimEnd(s) ==
    IF s # <<>> /\ s[Len(s)] = " " THEN TrimEnd(SubSeq(s, 1, Len(s) - 1)) ELSE s

(***************************************************************************)
(* Discovery responses.  A header line is [text, value]: the line is the   *)
(* characters of text followed by the ASCII string value; text holds at    *)
(* least the first 9 bytes of every line that has a value.                 *)
(***************************************************************************)
LocationUpper == <<"L","O","C","A","T","I","O","N",":"," ">>
LocationMixed == <<"L","o","c","a","t","i","o","n",":"," ">>
LocationLower == <<"l","o","c","a","t","i","o","n",":">>
StatusLine    == <<"H","T","T","P","/","1",".","1"," ","2","0","0"," ","O","K">>
ExtLine       == <<"E","X","T",":">>
\* "SERVER: <e acute>r": 8 ASCII bytes, then a 2-byte character over bytes 8..9
ServerUtf8    == <<"S","E","R","V","E","R",":"," ","U+00E9","r">>

Lines ==
    { [text |-> StatusLine,    value |-> ""],
      [text |-> ExtLine,       value |-> ""],
      [text |-> ServerUtf8,    value |-> ""],
      [text |-> LocationUpper, value |-> "http://192.168.1.5:8060/"],
      [text |-> LocationMixed, value |-> "http://Roku.local:8060/"],
      [text |-> LocationLower, value |-> "http://roku.local:8060/dial"],
      [text |-> LocationUpper, value |-> "http://192.168.1.5:80/"],
      [text |-> LocationUpper, value |-> "http://192.168.1.5/"],
      [text |-> LocationUpper, value |-> "192.168.1.5:8060"] }

\* a datagram is its header lines, in order: one line or two
Datagrams == {<<l>> : l \in Lines} \cup (Lines \X Lines)

NoDatagram == <<>>

\* str::len of a header line
LineLen(l) == ByteLen(l.text) + Len(l.value)

(***************************************************************************)
(* Url::parse, Url::host_str and Url::port on the location values above.   *)
(* UrlText gives the components as they are written in the text.           *)
(***************************************************************************)
UrlText(v) ==
    CASE v = "http://192.168.1.5:8060/" ->
            [ok |-> TRUE, scheme |-> "http", host |-> {"192.168.1.5"}, port |-> {8060}]
      [] v = "http://Roku.local:8060/" ->
            [ok |-> TRUE, scheme |-> "http", host |-> {"Roku.local"}, port |-> {8060}]
      [] v = "http://roku.local:8060/dial" ->
            [ok |-> TRUE, scheme |-> "http", host |-> {"roku.local"}, port |-> {8060}]
      [] v = "http://192.168.1.5:80/" ->
            [ok |-> TRUE, scheme |-> "http", host |-> {"192.168.1.5"}, port |-> {80}]
      [] v = "http://192.168.1.5/" ->
            [ok |-> TRUE, scheme |-> "http", host |-> {"192.168.1.5"}, port |-> {}]
         \* no scheme ("192.168.1.5:8060"), or nothing at all: a relative URL
         \* without a base, which Url::parse rejects
      [] OTHER ->
            [ok |-> FALSE, scheme |-> "", host |-> {}, port |-> {}]

\* the port a scheme implies, which the url crate never stores
DefaultPort(scheme) == IF scheme = "http" THEN {80} ELSE {}

\* the url crate lower-cases the host of an http URL
HostLower(h) == IF h = "Roku.local" THEN "roku.local" ELSE h

\* Url::host_str
host_str(u) == {HostLower(h) : h \in u.host}

\* Url::port: None when the URL names no port or names its scheme's default
port(u) == IF u.port = DefaultPort(u.scheme) THEN {} ELSE u.port

\* format!("{}:{}", host, port)
FormatAddress(h, p) == h \o ":" \o ToString(p)

(***************************************************************************)
(* discover_roku_devices, lines 203-217: one received datagram.            *)
(***************************************************************************)
\* the predicate given to find: l.len() >= 9 && l[..9].eq_ignore_ascii_case(..)
\* l[..9] panics when byte 9 is not a char boundary
IsLocation(l) ==
    IF LineLen(l) < 9 THEN "no"
    ELSE IF ~IsCharBoundary(l.text, 9) THEN "panic"
    ELSE IF eq_ignore_ascii_case(SubSeq(l.text, 1, CharsIn(l.text, 9)), LocationLower)
         THEN "yes" ELSE "no"

RECURSIVE FindLocation(_)
\* data.lines().find(..): the first line the predicate accepts; a panic of the
\* predicate on an earlier line ends the search
FindLocation(lines) ==
    IF lines = <<>> THEN [kind |-> "none"]
    ELSE LET r == IsLocation(Head(lines))
         IN  CASE r = "panic" -> [kind |-> "panic"]
               [] r = "yes"   -> [kind |-> "line", line |-> Head(lines)]
               [] OTHER       -> FindLocation(Tail(lines))

\* line[9..].trim(), as [lead, value]: the characters of text that are left
\* after the first 9 bytes and the trim, then value
TrimmedLocation(l) ==
    LET rest == SubSeq(l.text, CharsIn(l.text, 9) + 1, Len(l.text))
        lead == IF l.value = "" THEN TrimEnd(TrimStart(rest)) ELSE TrimStart(rest)
    IN  [lead |-> lead, value |-> l.value]

\* Url::parse(location)
UrlParse(loc) ==
    IF loc.lead # <<>> THEN UrlText("") ELSE UrlText(loc.value)

\* Some(address) for a line that yields one (lines 208-211), else None
AddressOf(l) ==
    LET url == UrlParse(TrimmedLocation(l))
    IN  IF url.ok
        THEN {FormatAddress(h, p) : h \in host_str(url), p \in port(url)}
        ELSE {}

\* a push without the contains test
PushAlways(f, address) == Append(f, address)

\* lines 212-214: if !found.contains(&address) { found.push(address) }
PushNew(f, address) == IF address \in Range(f) THEN f ELSE Append(f, address)

\* the body of the Ok arm for datagram d: found afterwards, or a panic
Received(d, f) ==
    LET hit == FindLocation(d)
    IN  CASE hit.kind = "panic" -> [panic |-> TRUE, found |-> f, address |-> {}]
          [] hit.kind = "none"  -> [panic |-> FALSE, found |-> f, address |-> {}]
          [] OTHER ->
               LET a == AddressOf(hit.line)
               IN  [panic |-> FALSE,
                    found |-> IF a = {} THEN f ELSE PushNew(f, CHOOSE x \in a : TRUE),
                    address |-> a]

(***************************************************************************)
(* Vec::sort and Vec::dedup on addresses.  AddressOrder lists the          *)
(* addresses the responses above can yield in the byte order of str::cmp.  *)
(***************************************************************************)
AddressOrder == <<"192.168.1.5:8060", "roku.local:8060">>

Addresses == Range(AddressOrder)

Rank(a) == CHOOSE i \in 1..Len(AddressOrder) : AddressOrder[i] = a

RECURSIVE InsertSorted(_, _)
InsertSorted(s, a) ==
    IF s = <<>> THEN <<a>>
    ELSE IF Rank(a) < Rank(Head(s)) THEN <<a>> \o s
    ELSE <<Head(s)>> \o InsertSorted(Tail(s), a)

RECURSIVE Sort(_)
Sort(s) == IF s = <<>> THEN <<>> ELSE InsertSorted(Sort(Tail(s)), Head(s))

RECURSIVE Dedup(_)
\* Vec::dedup: removes consecutive repeated elements
Dedup(s) ==
    IF Len(s) < 2 THEN s
    ELSE IF s[1] = s[2] THEN Dedup(Tail(s))
    ELSE <<Head(s)>> \o Dedup(Tail(s))

RETRIES == 1

(***************************************************************************)
(* Initial state: RokuRemoteApp::default(), no call running.               *)
(***************************************************************************)
NoCall == [name |-> "none", ip |-> "", arg |-> <<>>]

Init ==
    /\ dpc = "idle" /\ round = 0 /\ sent = 0 /\ nrecv = 0
    /\ buf = NoDatagram /\ found = <<>> /\ addrs = <<>>
    /\ devices = <<>> /\ selected_device = {} /\ apps = <<>>
    /\ selected_app = {} /\ launched = {}
    /\ gpc = "idle" /\ gip = "" /\ gbody = {} /\ gret = <<>> /\ gfail = "none"
    /\ cpc = "idle" /\ call = NoCall /\ idx = 0 /\ inflight = <<>> /\ log = <<>>

(***************************************************************************)
(* The Discover button (lines 54-59) running discover_roku_devices         *)
(* (lines 174-225).                                                        *)
(***************************************************************************)
\* the button is clicked: the call starts, `found` is a new Vec
DiscoverCall ==
    /\ dpc \in {"idle", "returned"}
    /\ dpc' = "bind"
    /\ round' = 0 /\ sent' = 0 /\ nrecv' = 0
    /\ buf' = NoDatagram /\ found' = <<>> /\ addrs' = <<>>
    /\ UNCHANGED <<uiVars, appsVars, controlVars>>

\* UdpSocket::bind succeeds; the options are set and the request is sent once
BindOk ==
    /\ dpc = "bind"
    /\ dpc' = "recv"
    /\ sent' = sent + 1
    /\ UNCHANGED <<round, nrecv, buf, found, addrs, uiVars, appsVars, controlVars>>

\* UdpSocket::bind fails: expect("bind failed") panics
BindFailed ==
    /\ dpc = "bind"
    /\ dpc' = "bind_failed"
    /\ UNCHANGED <<round, sent, nrecv, buf, found, addrs, uiVars, appsVars, controlVars>>

\* recv_from returns Ok with datagram d
RecvOk ==
    /\ dpc = "recv"
    /\ nrecv < MaxDatagrams
    /\ \E d \in Datagrams :
         LET r == Received(d, found)
         IN  /\ buf' = d
             /\ found' = r.found
             /\ addrs' = IF r.address = {} THEN addrs
                         ELSE Append(addrs, CHOOSE x \in r.address : TRUE)
             /\ dpc' = IF r.panic THEN "panicked" ELSE "recv"
    /\ nrecv' = nrecv + 1
    /\ UNCHANGED <<round, sent, uiVars, appsVars, controlVars>>

\* recv_from returns Err (the read timed out, or failed): break.  After the
\* last round the function returns and the handler sorts and dedups
RecvErr ==
    /\ dpc = "recv"
    /\ round' = round + 1
    /\ IF round + 1 < RETRIES
       THEN /\ dpc' = "bind"
            /\ UNCHANGED devices
       ELSE /\ dpc' = "returned"
            /\ devices' = Dedup(Sort(found))
    /\ UNCHANGED <<sent, nrecv, buf, found, addrs, selected_device, apps, selected_app,
                   launched, appsVars, controlVars>>

NextDiscover == DiscoverCall \/ BindOk \/ BindFailed \/ RecvOk \/ RecvErr

SpecDiscover == Init /\ [][NextDiscover]_vars

(***************************************************************************)
(* Properties of discovery.                                                *)
(***************************************************************************)
\* a header line that is a LOCATION header, read as text: its first nine
\* characters are "location:" in any case
HasLocationHeader(l) ==
    /\ Len(l.text) >= Len(LocationLower)
    /\ eq_ignore_ascii_case(SubSeq(l.text, 1, Len(LocationLower)), LocationLower)

\* the datagram has no LOCATION header, or the value of its first one is no URL
NoUsableLocation(d) ==
    \/ \A i \in 1..Len(d) : ~HasLocationHeader(d[i])
    \/ LET i == CHOOSE k \in 1..Len(d) :
                   HasLocationHeader(d[k]) /\ \A j \in 1..(k - 1) : ~HasLocationHeader(d[j])
       IN  ~UrlText(d[i].value).ok

\* host:port of the datagram's first LOCATION header, when its value is a URL
\* that names both a host and a port
NamedAddresses(d) ==
    IF \A i \in 1..Len(d) : ~HasLocationHeader(d[i]) THEN {}
    ELSE LET i == CHOOSE k \in 1..Len(d) :
                     HasLocationHeader(d[k]) /\ \A j \in 1..(k - 1) : ~HasLocationHeader(d[j])
             u == UrlText(d[i].value)
         IN  IF u.ok THEN {FormatAddress(HostLower(h), p) : h \in u.host, p \in u.port}
             ELSE {}

\* C1: at every point of the receive loop and in the value handed back, each
\* address formed from a datagram of the call is held exactly once: `found`
\* has no repeated element and holds exactly the addresses formed, and the
\* list the handler stores has no repeated element either.
C1_EachAddressOnce ==
    /\ NoDup(found)
    /\ Range(found) = Range(addrs)
    /\ NoDup(devices)
    /\ dpc = "returned" => Range(devices) = Range(addrs)

\* two datagrams of one call yielded the same address and the call returned
C1_Witness ==
    /\ dpc = "returned"
    /\ Len(addrs) = 2 /\ addrs[1] = addrs[2]
    /\ devices = <<addrs[1]>>

\* C2: a received datagram with no LOCATION header, or whose LOCATION value
\* is no URL, leaves `found` as it was and the call goes on receiving.
C2_BadDatagramSkipped ==
    [][(nrecv' = nrecv + 1 /\ NoUsableLocation(buf')) =>
          (found' = found /\ dpc' = "recv")]_vars

\* C8: a call that got its socket sends the request once and ends by
\* returning; a failed bind is the only way the call ends without a result.
C8_OnlyBindFailureAborts ==
    /\ dpc \in {"recv", "returned"} => sent = 1
    /\ dpc \notin {"idle", "bind", "recv", "returned"} => dpc = "bind_failed"

\* C9: when the call has returned, the host:port named by the LOCATION header
\* of the datagram received last is in the result.
C9_NamedAddressReturned ==
    (dpc = "returned" /\ nrecv > 0) => NamedAddresses(buf) \subseteq Range(devices)


(***************************************************************************)
(* send_command, launch_app and send_key (lines 247-270).  A request is    *)
(* in `inflight` from the moment send() is entered until it returns; send  *)
(* blocks, so the caller is at "wait" meanwhile.                           *)
(***************************************************************************)
\* the buttons of ROKU_COMMANDS the model presses
Commands == {"VolumeUp", "Home"}

\* the characters of the texts the model types
Alphabet == {"h", "i", " "}

Texts == SeqsUpTo(Alphabet, MaxText)

\* format!("http://{}/keypress/{}", ip, command)
KeypressUrl(ip, command) == "http://" \o ip \o "/keypress/" \o command

\* format!("http://{}/launch/{}", ip, app_id)
LaunchUrl(ip, app_id) == "http://" \o ip \o "/launch/" \o app_id

\* an encoding that leaves the space as it is
EncodeRaw(c) == c

\* lines 262-266: encoded_char
EncodedChar(c) == IF c = " " THEN "%20" ELSE c

\* format!("http://{}/keypress/Lit_{}", ip, encoded_char)
LitUrl(ip, c) == "http://" \o ip \o "/keypress/Lit_" \o EncodedChar(c)

Post(url) == [method |-> "POST", url |-> url]

Outcome(req, ok) == [method |-> req.method, url |-> req.url, ok |-> ok]

\* a control call starts: nothing sent yet
Enter(name, ip, arg) ==
    /\ cpc \in {"idle", "returned"}
    /\ call' = [name |-> name, ip |-> ip, arg |-> arg]
    /\ idx' = 0 /\ log' = <<>>

\* send_command up to the moment send() is entered
SendCommandCall ==
    \E ip \in Addresses, command \in Commands :
        /\ Enter("send_command", ip, <<command>>)
        /\ inflight' = <<Post(KeypressUrl(ip, command))>>
        /\ cpc' = "wait"
        /\ UNCHANGED <<discoverVars, uiVars, appsVars>>

\* a send_command whose send() is entered again after an Err
SendCommandRetry ==
    /\ cpc = "wait" /\ call.name = "send_command"
    /\ \E ok \in BOOLEAN :
         /\ log' = Append(log, Outcome(inflight[1], ok))
         /\ IF ok THEN inflight' = <<>> /\ cpc' = "returned"
                  ELSE inflight' = inflight /\ cpc' = "wait"
    /\ UNCHANGED <<call, idx, discoverVars, uiVars, appsVars>>

\* send() returns, Ok or Err; `let _ =` drops the result and the call returns
SendCommandDone ==
    /\ cpc = "wait" /\ call.name = "send_command"
    /\ \E ok \in BOOLEAN : log' = Append(log, Outcome(inflight[1], ok))
    /\ inflight' = <<>>
    /\ cpc' = "returned"
    /\ UNCHANGED <<call, idx, discoverVars, uiVars, appsVars>>

\* launch_app up to the moment send() is entered
LaunchAppCall ==
    \E ip \in Addresses, app_id \in {"12", "2285"} :
        /\ Enter("launch_app", ip, <<app_id>>)
        /\ inflight' = <<Post(LaunchUrl(ip, app_id))>>
        /\ cpc' = "wait"
        /\ UNCHANGED <<discoverVars, uiVars, appsVars>>

\* send() returns, Ok or Err; `let _ =` drops the result and the call returns
LaunchAppDone ==
    /\ cpc = "wait" /\ call.name = "launch_app"
    /\ \E ok \in BOOLEAN : log' = Append(log, Outcome(inflight[1], ok))
    /\ inflight' = <<>>
    /\ cpc' = "returned"
    /\ UNCHANGED <<call, idx, discoverVars, uiVars, appsVars>>

\* send_key is entered: the client is built, the loop has not started
SendKeyCall ==
    \E ip \in Addresses, key \in Texts :
        /\ Enter("send_key", ip, key)
        /\ inflight' = <<>>
        /\ cpc' = "loop"
        /\ UNCHANGED <<discoverVars, uiVars, appsVars>>

\* one iteration of `for c in key.chars()` up to the moment send() is entered
SendKeyPost ==
    /\ cpc = "loop" /\ call.name = "send_key"
    /\ idx < Len(call.arg)
    /\ idx' = idx + 1
    /\ inflight' = Append(inflight, Post(LitUrl(call.ip, call.arg[idx + 1])))
    /\ cpc' = "wait"
    /\ UNCHANGED <<call, log, discoverVars, uiVars, appsVars>>

\* a send_key that leaves the loop when send() returns Err
SendKeyDoneOrBreak ==
    /\ cpc = "wait" /\ call.name = "send_key"
    /\ \E ok \in BOOLEAN :
         /\ log' = Append(log, Outcome(inflight[1], ok))
         /\ cpc' = IF ok THEN "loop" ELSE "returned"
    /\ inflight' = <<>>
    /\ UNCHANGED <<call, idx, discoverVars, uiVars, appsVars>>

\* send() returns, Ok or Err; `let _ =` drops the result and the loop goes on
SendKeyDone ==
    /\ cpc = "wait" /\ call.name = "send_key"
    /\ \E ok \in BOOLEAN : log' = Append(log, Outcome(inflight[1], ok))
    /\ inflight' = <<>>
    /\ cpc' = "loop"
    /\ UNCHANGED <<call, idx, discoverVars, uiVars, appsVars>>

\* chars() is exhausted: send_key returns
SendKeyReturn ==
    /\ cpc = "loop" /\ call.name = "send_key"
    /\ idx = Len(call.arg)
    /\ cpc' = "returned"
    /\ UNCHANGED <<call, idx, inflight, log, discoverVars, uiVars, appsVars>>

NextControl ==
    \/ SendCommandCall \/ SendCommandDone
    \/ LaunchAppCall \/ LaunchAppDone
    \/ SendKeyCall \/ SendKeyPost \/ SendKeyDone \/ SendKeyReturn

SpecControl == Init /\ [][NextControl]_vars

(***************************************************************************)
(* Properties of the control calls.                                        *)
(***************************************************************************)
\* the request the text asks for at position k: a space goes as %20
LitRequest(ip, key, k) ==
    [method |-> "POST",
     url |-> "http://" \o ip \o "/keypress/Lit_" \o (IF key[k] = " " THEN "%20" ELSE key[k])]

Request(r) == [method |-> r.method, url |-> r.url]

\* C3: in a send_key call the requests go out one at a time, the k-th one a
\* POST to /keypress/Lit_<k-th character> (a space as %20): a request is
\* entered only when every earlier one has returned, and when the call
\* returns there has been exactly one request per character, in text order.
C3_OneRequestPerCharInOrder ==
    call.name = "send_key" =>
        /\ Len(inflight) <= 1
        /\ Len(log) + Len(inflight) = idx
        /\ idx <= Len(call.arg)
        /\ \A k \in 1..Len(log) : Request(log[k]) = LitRequest(call.ip, call.arg, k)
        /\ \A k \in 1..Len(inflight) : inflight[k] = LitRequest(call.ip, call.arg, idx)
        /\ cpc = "returned" => (Len(log) = Len(call.arg) /\ inflight = <<>>)

\* a send_key call of a three-character text holding a space has returned
C3_Witness ==
    /\ call.name = "send_key" /\ cpc = "returned"
    /\ call.arg = <<"h", " ", "i">>
    /\ Len(log) = 3

\* C4: a send_key call never ends in an error, and when it has returned,
\* every character after one whose request failed has had its request too.
C4_ContinueAfterFailure ==
    call.name = "send_key" =>
        /\ cpc \in {"loop", "wait", "returned"}
        /\ cpc = "returned" =>
             \A k \in 1..Len(log) : ~log[k].ok =>
                 \A j \in (k + 1)..Len(call.arg) :
                     /\ j <= Len(log)
                     /\ Request(log[j]) = LitRequest(call.ip, call.arg, j)

\* the first request of a three-character text failed, the other two were
\* made, and the call has returned
C4_Witness ==
    /\ call.name = "send_key" /\ cpc = "returned"
    /\ Len(call.arg) = 3 /\ Len(log) = 3
    /\ ~log[1].ok /\ log[2].ok

\* the one request a send_command or launch_app call asks for
SingleRequest ==
    [method |-> "POST",
     url |-> "http://" \o call.ip \o
             (IF call.name = "send_command" THEN "/keypress/" ELSE "/launch/") \o
             call.arg[1]]

\* C5: a send_command or launch_app call makes one POST, to /keypress/<command>
\* or /launch/<appId> of the address, and no other: there is never a second
\* request, and the call returns after the first whatever its outcome.
C5_ExactlyOneRequest ==
    call.name \in {"send_command", "launch_app"} =>
        /\ Len(log) + Len(inflight) = 1
        /\ \A k \in 1..Len(log) : Request(log[k]) = SingleRequest
        /\ \A k \in 1..Len(inflight) : inflight[k] = SingleRequest
        /\ cpc \in {"wait", "returned"}
        /\ cpc = "returned" <=> Len(log) = 1

\* a send_command call whose request failed has returned
C5_Witness ==
    /\ call.name = "send_command" /\ cpc = "returned"
    /\ Len(log) = 1 /\ ~log[1].ok

(***************************************************************************)
(* get_apps (lines 227-245).  A response body is the sequence of its       *)
(* elements [tag, id, inner]: <tag id="id">inner</tag>.                    *)
(***************************************************************************)
Elements ==
    { [tag |-> "app", id |-> "12",   inner |-> "Netflix &amp; Chill"],
      [tag |-> "app", id |-> "12",   inner |-> "Hulu"],
      [tag |-> "app", id |-> "2285", inner |-> "Hulu"],
      [tag |-> "app", id |-> "",     inner |-> "Blank"],
      [tag |-> "screensaver", id |-> "55", inner |-> "Clock"] }

Bodies == SeqsUpTo(Elements, MaxRecords)

\* the regex <app[^>]*id="([^"]+)"[^>]*>(.*?)</app> on one element: the tag
\* is app and the id has at least one character
IsAppRecord(e) == e.tag = "app" /\ e.id # ""

\* decode_html_entities on the inner texts above
decode_html_entities(t) ==
    IF t = "Netflix &amp; Chill" THEN "Netflix & Chill" ELSE t

\* lines 236-239: the AppEntry of one capture
AppEntry(e) == [id |-> e.id, name |-> decode_html_entities(e.inner)]

RECURSIVE Captures(_)
\* captures_iter(&text).map(..).collect(): one entry per match, in order
Captures(body) ==
    IF body = <<>> THEN <<>>
    ELSE IF IsAppRecord(Head(body))
         THEN <<AppEntry(Head(body))>> \o Captures(Tail(body))
         ELSE Captures(Tail(body))

\* get_apps is entered and the GET is sent
GetAppsCall ==
    /\ gpc \in {"idle", "returned"}
    /\ \E ip \in Addresses : gip' = ip
    /\ gpc' = "send"
    /\ gbody' = {} /\ gret' = <<>> /\ gfail' = "none"
    /\ UNCHANGED <<discoverVars, uiVars, controlVars>>

\* a get_apps that unwraps the result of send()
GetAppsSendUnwrap ==
    /\ gpc = "send"
    /\ gpc' = "panicked"
    /\ gfail' = "send"
    /\ UNCHANGED <<gip, gbody, gret, discoverVars, uiVars, controlVars>>

\* send() returns Err: the `if let` is skipped, vec![] is returned
GetAppsSendErr ==
    /\ gpc = "send"
    /\ gpc' = "returned"
    /\ gfail' = "send"
    /\ gret' = <<>>
    /\ UNCHANGED <<gip, gbody, discoverVars, uiVars, controlVars>>

\* send() returns Ok(resp)
GetAppsSendOk ==
    /\ gpc = "send"
    /\ gpc' = "text"
    /\ UNCHANGED <<gip, gbody, gret, gfail, discoverVars, uiVars, controlVars>>

\* resp.text() returns Err: vec![] is returned
GetAppsTextErr ==
    /\ gpc = "text"
    /\ gpc' = "returned"
    /\ gfail' = "text"
    /\ gret' = <<>>
    /\ UNCHANGED <<gip, gbody, discoverVars, uiVars, controlVars>>

\* resp.text() returns Ok(text): the captures are returned
GetAppsTextOk ==
    /\ gpc = "text"
    /\ \E body \in Bodies :
         /\ gbody' = {body}
         /\ gret' = Captures(body)
    /\ gpc' = "returned"
    /\ UNCHANGED <<gip, gfail, discoverVars, uiVars, controlVars>>

NextApps ==
    GetAppsCall \/ GetAppsSendErr \/ GetAppsSendOk \/ GetAppsTextErr \/ GetAppsTextOk

SpecApps == Init /\ [][NextApps]_vars

(***************************************************************************)
(* Properties of get_apps.                                                 *)
(***************************************************************************)
\* C6: get_apps never ends in an error, and it returns the empty sequence
\* when the GET failed, when the body could not be read, and when the body
\* holds no <app> record with an id.
C6_FailureGivesEmpty ==
    /\ gpc \in {"idle", "send", "text", "returned"}
    /\ gpc = "returned" =>
         /\ gfail \in {"send", "text"} => gret = <<>>
         /\ (\A b \in gbody : \A k \in 1..Len(b) : b[k].tag # "app" \/ b[k].id = "")
                => gret = <<>>

\* the GET failed at transport level and the call returned the empty sequence
C6_Witness == gpc = "returned" /\ gfail = "send" /\ gret = <<>>

\* C7: in the sequence a get_apps call returns every id is non-empty and no
\* two entries have the same id.
C7_IdsNonEmptyAndUnique ==
    gpc = "returned" =>
        /\ \A k \in 1..Len(gret) : gret[k].id # ""
        /\ \A j, k \in 1..Len(gret) : gret[j].id = gret[k].id => j = k

(***************************************************************************)
(* The handlers of RokuRemoteApp::update that select and launch (lines     *)
(* 54-77 and 143-165).  A handler runs to its end in one step; the calls   *)
(* it makes block, and return any value the functions above can return.    *)
(***************************************************************************)
\* what discover_roku_devices can return: addresses, none of them twice
DiscoverReturns == {f \in SeqsUpTo(Addresses, Cardinality(Addresses)) : NoDup(f)}

\* what get_apps can return: the captures of a body, or vec![]
GetAppsReturns == {Captures(b) : b \in Bodies} \cup {<<>>}

\* lines 54-59: the Discover button
ClickDiscover ==
    /\ \E f \in DiscoverReturns : devices' = Dedup(Sort(f))
    /\ launched' = {}
    /\ UNCHANGED <<selected_device, apps, selected_app,
                   discoverVars, appsVars, controlVars>>

\* lines 68-77: a device of the combo box is clicked
ClickDevice ==
    /\ devices # <<>>
    /\ \E i \in 1..Len(devices) :
         /\ selected_device' = {devices[i]}
         /\ \E r \in GetAppsReturns : apps' = r
    /\ launched' = {}
    /\ UNCHANGED <<devices, selected_app, discoverVars, appsVars, controlVars>>

\* lines 143-152: an app of the combo box is clicked
ClickApp ==
    /\ devices # <<>>
    /\ \E i \in 1..Len(apps) : selected_app' = {apps[i].id}
    /\ launched' = {}
    /\ UNCHANGED <<devices, selected_device, apps, discoverVars, appsVars, controlVars>>

\* lines 154-165: the Launch App button; launch_app runs when both a device
\* and an app are selected
ClickLaunch ==
    /\ devices # <<>>
    /\ launched' = {Post(LaunchUrl(ip, app_id)) : ip \in selected_device,
                                                  app_id \in selected_app}
    /\ UNCHANGED <<devices, selected_device, apps, selected_app,
                   discoverVars, appsVars, controlVars>>

NextUI == ClickDiscover \/ ClickDevice \/ ClickApp \/ ClickLaunch

SpecUI == Init /\ [][NextUI]_vars

(***************************************************************************)
(* Properties of the handlers.                                             *)
(***************************************************************************)
\* C10: a launch request that is issued goes to the selected device, with an
\* app id of the catalog last fetched for it, which is the app list shown.
C10_LaunchFromCurrentCatalog ==
    \A req \in launched :
        \E ip \in selected_device, k \in 1..Len(apps) :
            req = [method |-> "POST",
                   url |-> "http://" \o ip \o "/launch/" \o apps[k].id]

====
